---- MODULE Spec2Model ----
(***************************************************************************)
(* A model of the hzip Huffman coder: zip (src/src/hzip.cpp:146-250),      *)
(* unzip (src/src/hzip.cpp:378-505) and the HuffmanTree they share         *)
(* (src/src/huffman_tree.hpp).                                             *)
(*                                                                         *)
(* Bytes are the integers 0..255.  A codeword is a sequence of bytes, as   *)
(* in the source (std::vector<uint8_t>); index k of a C++ array is index   *)
(* k + 1 of the sequence that models it.                                   *)
(***************************************************************************)
EXTENDS Integers, Sequences, FiniteSets, TLC

ALPHABET_SIZE == 256

BUFFER_SIZE == 1024

\* The separator ' ' between the extension and the content.
separator == 32

\* An empty std::optional<uint8_t> originalByte.
NoByte == -1

\* The exit status of a run of main that has not returned.
NoStatus == -1

\* The extension "hzip".
hzip == <<104, 122, 105, 112>>

\* ------------------------------------------------------------------ bounds

\* Longest extension and longest content of the enumerated source files.
MaxExtLen == 2

MaxContentLen == 3

\* Most bytes cut from the end of a compressed body before unzip reads it.
MaxCut == 2

\* Most source bytes unzip fetches from beyond the bytes it has read.
MaxOverrun == 2

\* ------------------------------------------------------------- bit helpers

\* a | b on unsigned integers.
RECURSIVE BitOr(_, _)
BitOr(a, b) ==
    IF a = 0 THEN b
    ELSE IF b = 0 THEN a
    ELSE (IF a % 2 = 1 \/ b % 2 = 1 THEN 1 ELSE 0) + 2 * BitOr(a \div 2, b \div 2)

\* a & b on unsigned integers.
RECURSIVE BitAnd(_, _)
BitAnd(a, b) ==
    IF a = 0 \/ b = 0 THEN 0
    ELSE (IF a % 2 = 1 /\ b % 2 = 1 THEN 1 ELSE 0) + 2 * BitAnd(a \div 2, b \div 2)

\* vector::insert(iter, x) with iter at (1-based) position k.
InsertAt(seq, k, x) == SubSeq(seq, 1, k - 1) \o <<x>> \o SubSeq(seq, k, Len(seq))

\* ---------------------------------------------------------- HuffmanTreeNode

\* HuffmanTreeNode(uint8_t, size_t): a leaf.
Leaf(originalByte, frequency) ==
    [originalByte |-> originalByte, frequency |-> frequency, kids |-> <<>>]

\* An internal node that takes its frequency from its left child alone.
InternalLeftFrequency(left, right) ==
    [originalByte |-> NoByte, frequency |-> left.frequency, kids |-> <<left, right>>]

\* HuffmanTreeNode(left, right): an internal node.
Internal(left, right) ==
    [originalByte |-> NoByte,
     frequency |-> left.frequency + right.frequency,
     kids |-> <<left, right>>]

isLeaf(node) == node.originalByte # NoByte

\* A null HuffmanTreeNodePtr is the empty sequence.
NullPtr == <<>>

getLeftSubtree(node) == IF node.kids = <<>> THEN NullPtr ELSE node.kids[1]

getRightSubtree(node) == IF node.kids = <<>> THEN NullPtr ELSE node.kids[2]

\* ------------------------------------------------------------- HuffmanTree

\* The scan with >= for >: it stops after the nodes of frequency f.
RECURSIVE ScanPosAfterEquals(_, _, _)
ScanPosAfterEquals(nodes, f, k) ==
    IF k <= Len(nodes) /\ nodes[k].frequency >= f
    THEN ScanPosAfterEquals(nodes, f, k + 1)
    ELSE k

\* The scan `while (iter < end && (*iter)->getFrequency() > f) iter++`,
\* started at position k: the position the new node is inserted at.
RECURSIVE ScanPos(_, _, _)
ScanPos(nodes, f, k) ==
    IF k <= Len(nodes) /\ nodes[k].frequency > f
    THEN ScanPos(nodes, f, k + 1)
    ELSE k

\* freqArr after the extension, the separator and the whole file are counted.
Histogram(stream) ==
    [b \in 0..(ALPHABET_SIZE - 1) |->
        Cardinality({k \in 1..Len(stream) : stream[k] = b})]

\* The loop that seeds the leaves from freqArr, over the symbols lo .. hi - 1
\* in ascending order (the range is walked in two halves, the lower first).
\* lv holds the leaves of symbols below lo, at most lo of them.
RECURSIVE SeedLeaves(_, _, _, _)
SeedLeaves(freqArr, lo, hi, lv) ==
    IF Len(lv) <= lo /\ hi - lo > 1
    THEN LET mid == (lo + hi) \div 2
         IN  SeedLeaves(freqArr, mid, hi, SeedLeaves(freqArr, lo, mid, lv))
    ELSE IF freqArr[lo] = 0 THEN lv
    ELSE InsertAt(lv, ScanPos(lv, freqArr[lo], 1), Leaf(lo, freqArr[lo]))

\* The merge step that puts the new node at the end of tempLeaves.
MergeStepAtEnd(tempLeaves) ==
    LET n == Len(tempLeaves)
    IN  Append(SubSeq(tempLeaves, 1, n - 2), Internal(tempLeaves[n], tempLeaves[n - 1]))

\* The merge step that puts the new node after the nodes of its frequency.
MergeStepAfterEquals(tempLeaves) ==
    LET n     == Len(tempLeaves)
        rest  == SubSeq(tempLeaves, 1, n - 2)
        newInternalNode == Internal(tempLeaves[n], tempLeaves[n - 1])
    IN  InsertAt(rest, ScanPosAfterEquals(rest, newInternalNode.frequency, 1),
                 newInternalNode)

\* One iteration of the merge loop of buildMinHeapFromLeaves.
MergeStep(tempLeaves) ==
    LET n     == Len(tempLeaves)
        left  == tempLeaves[n]
        right == tempLeaves[n - 1]
        rest  == SubSeq(tempLeaves, 1, n - 2)
        newInternalNode == Internal(left, right)
    IN  InsertAt(rest, ScanPos(rest, newInternalNode.frequency, 1), newInternalNode)

\* EncodedByte(codeword, numberOfBits).
EncodedByte(codeword, numberOfBits) ==
    [codeword |-> codeword, numberOfBits |-> numberOfBits]

\* setEncodings without `codeword[size - 1] |= position`: the right branch
\* gets the codeword of the left one.
SetBitDropped(encodedByte, position) == encodedByte

\* In setEncodings, the codeword after `codeword[size - 1] |= position`.
SetBit(encodedByte, position) ==
    [encodedByte EXCEPT
        !.codeword[Len(encodedByte.codeword)] = BitOr(@, position)]

\* setEncodings: the calls of encodingDict.insert it makes, in order, each a
\* pair <<originalByte, encodedByte>>.
RECURSIVE setEncodings(_, _, _)
setEncodings(encodedByte, currentNode, position) ==
    IF isLeaf(currentNode)
    THEN << <<currentNode.originalByte, encodedByte>> >>
    ELSE LET pos == IF position = 0 THEN 128 ELSE position
             cw  == IF position = 0
                    THEN Append(encodedByte.codeword, 0)
                    ELSE encodedByte.codeword
             eb0 == EncodedByte(cw, encodedByte.numberOfBits + 1)
         IN  setEncodings(eb0, getLeftSubtree(currentNode), pos \div 2)
                 \o setEncodings(SetBit(eb0, pos), getRightSubtree(currentNode), pos \div 2)

\* The unordered_map after a sequence of insert calls: for each key the
\* first value inserted stays.
DictOf(inserts) ==
    [key \in {inserts[k][1] : k \in 1..Len(inserts)} |->
        LET first == CHOOSE k \in 1..Len(inserts) :
                        /\ inserts[k][1] = key
                        /\ \A j \in 1..(k - 1) : inserts[j][1] # key
        IN  inserts[first][2]]

\* buildEncodingDict with an initialPosition of 0x80.
buildEncodingDictFrom128(root) ==
    DictOf(setEncodings(EncodedByte(<<0>>, 1), getLeftSubtree(root), 128)
             \o setEncodings(EncodedByte(<<128>>, 1), getRightSubtree(root), 128))

\* buildEncodingDict on a root that has two subtrees.
buildEncodingDict(root) ==
    LET initialPosition == 64
    IN  DictOf(setEncodings(EncodedByte(<<0>>, 1), getLeftSubtree(root), initialPosition)
                 \o setEncodings(EncodedByte(<<128>>, 1), getRightSubtree(root),
                                 initialPosition))

\* A default-constructed HuffmanTree.
EmptyTree == [leaves |-> <<>>, root |-> NullPtr, encodingDict |-> <<>>]

\* ------------------------------------------------------------------- hzip

\* byteSize: ceil(log2(n) / 8) for n >= 1, the least k with 256^k >= n.
RECURSIVE byteSize(_)
byteSize(n) == IF n <= 1 THEN 0 ELSE 1 + byteSize((n + 255) \div 256)

\* The inner loop of writeHuffmanMetadata: frequency in w bytes, the low
\* byte last.
FrequencyBytes(frequency, w) ==
    [k \in 1..w |-> (frequency \div (256 ^ (w - k))) % 256]

\* The outer loop of writeHuffmanMetadata over leaves lo .. hi (the range is
\* walked in two halves, the lower first).
RECURSIVE LeafRecords(_, _, _, _)
LeafRecords(leaves, w, lo, hi) ==
    IF lo > hi THEN <<>>
    ELSE IF lo = hi
    THEN <<leaves[lo].originalByte>> \o FrequencyBytes(leaves[lo].frequency, w)
    ELSE LET mid == (lo + hi) \div 2
         IN  LeafRecords(leaves, w, lo, mid) \o LeafRecords(leaves, w, mid + 1, hi)

\* uniqueBytes, a uint8_t, in writeHuffmanMetadata.
UniqueBytes(leaves) == Len(leaves) % 256

\* The bytes writeHuffmanMetadata hands to destFile.write: the first
\* huffmanMetadataSize bytes of the array it filled.
writeHuffmanMetadata(leaves) ==
    LET uniqueBytes  == UniqueBytes(leaves)
        bytesForFreq == byteSize(leaves[1].frequency)
        huffmanMetadataSize == uniqueBytes * (bytesForFreq + 1) + 2
        filled == <<uniqueBytes, bytesForFreq>> \o LeafRecords(leaves, bytesForFreq, 1, Len(leaves))
    IN  SubSeq(filled, 1, huffmanMetadataSize)

Zeros(n) == [k \in 1..n |-> 0]

\* The shifting loop of shiftRight over codeword[k..], carrying shiftedBits.
RECURSIVE ShiftLoop(_, _, _, _)
ShiftLoop(codeword, k, bitsToShift, shiftedBits) ==
    IF k > Len(codeword) THEN codeword
    ELSE LET nextShiftedBits == (codeword[k] * (2 ^ (8 - bitsToShift))) % 256
         IN  ShiftLoop([codeword EXCEPT
                           ![k] = BitOr(codeword[k] \div (2 ^ bitsToShift), shiftedBits)],
                       k + 1, bitsToShift, nextShiftedBits)

\* shiftRight without the push_back of the alignment byte: the bits shifted
\* out of the last byte are lost.
shiftRightUnaligned(encodedByte, bitsToShift) ==
    LET numberOfBits  == encodedByte.numberOfBits + bitsToShift
        bytesToInsert == IF bitsToShift >= 8 THEN bitsToShift \div 8 ELSE 0
        inserted      == Zeros(bytesToInsert) \o encodedByte.codeword
        rest          == bitsToShift % 8
    IN  EncodedByte(IF rest > 0
                    THEN ShiftLoop(inserted, bytesToInsert + 1, rest, 0)
                    ELSE inserted,
                    numberOfBits)

shiftRight(encodedByte, bitsToShift) ==
    LET numberOfBits  == encodedByte.numberOfBits + bitsToShift
        bytesToInsert == IF bitsToShift >= 8 THEN bitsToShift \div 8 ELSE 0
        inserted      == Zeros(bytesToInsert) \o encodedByte.codeword
        rest          == bitsToShift % 8
        aligned       == IF rest > 0 /\ numberOfBits % 8 # 0
                         THEN Append(inserted, 0)
                         ELSE inserted
    IN  EncodedByte(IF rest > 0
                    THEN ShiftLoop(aligned, bytesToInsert + 1, rest, 0)
                    ELSE aligned,
                    numberOfBits)

\* encodingDict[b]: a missing key is default-constructed.
DictAt(dict, b) == IF b \in DOMAIN dict THEN dict[b] ELSE EncodedByte(<<0>>, 0)

destBufferNumBits == BUFFER_SIZE * 8

\* destBuffer is kept as its stored prefix: every byte beyond it is the zero
\* of the initialiser or of the memset.  destBuffer[index] of the source:
DestAt(buffer, index) == IF index < Len(buffer) THEN buffer[index + 1] ELSE 0

\* destBuffer[index] = byte: the bits the byte held are lost.
DestSet(buffer, index, byte) ==
    LET grown == buffer \o Zeros(index + 1 - Len(buffer))
    IN  [grown EXCEPT ![index + 1] = byte]

\* destBuffer[index] |= byte, for index < BUFFER_SIZE.
DestOr(buffer, index, byte) ==
    LET grown == buffer \o Zeros(index + 1 - Len(buffer))
    IN  [grown EXCEPT ![index + 1] = BitOr(@, byte)]

\* The loop `destBuffer[destBufferIndex] |= *iter; destBufferIndex++` over
\* codeword[k..]: the buffer and the stores that fell outside it.
RECURSIVE StoreCodeword(_, _, _, _, _)
StoreCodeword(buffer, oob, codeword, k, index) ==
    IF k > Len(codeword) THEN [buffer |-> buffer, oob |-> oob]
    ELSE IF index < BUFFER_SIZE
    THEN StoreCodeword(DestOr(buffer, index, codeword[k]), oob, codeword, k + 1, index + 1)
    ELSE StoreCodeword(buffer, oob \cup {<<index, codeword[k]>>}, codeword, k + 1, index + 1)

\* ifstream::read of up to n bytes at offset pos: the bytes read (gcount of
\* them).
ReadChunk(file, pos, n) ==
    SubSeq(file, pos + 1, IF pos + n < Len(file) THEN pos + n ELSE Len(file))

\* buildLeavesFromMetadata.  huffmanMetadata[k] for k inside the array; a
\* read past its end yields the byte `beyond` that lies there.
MetadataAt(huffmanMetadata, k, beyond) ==
    IF k < Len(huffmanMetadata) THEN huffmanMetadata[k + 1] ELSE beyond

\* The loop that combines bytes j..bytesForFreq-1 into frequency.
RECURSIVE CombineFrequency(_, _, _, _, _, _)
CombineFrequency(huffmanMetadata, idx, bytesForFreq, j, frequency, beyond) ==
    IF j >= bytesForFreq THEN frequency
    ELSE CombineFrequency(huffmanMetadata, idx, bytesForFreq, j + 1,
                          BitOr(frequency * 256,
                                MetadataAt(huffmanMetadata, idx + j + 1, beyond)),
                          beyond)

buildLeavesFromMetadata(huffmanMetadata, beyond) ==
    LET uniqueBytes  == huffmanMetadata[1]
        bytesForFreq == huffmanMetadata[2]
    IN  [n \in 1..uniqueBytes |->
            LET idx == (n - 1) * (bytesForFreq + 1) + 2
            IN  Leaf(MetadataAt(huffmanMetadata, idx, beyond),
                     CombineFrequency(huffmanMetadata, idx, bytesForFreq, 1,
                                      MetadataAt(huffmanMetadata, idx + 1, beyond),
                                      beyond))]

\* A test of the counter that lets the symbol after the last one through.
EndOfFileLate(bytesToDecode) == bytesToDecode < 0

\* `if (bytesToDecode == 0)` in unzip, after a symbol was decoded.
EndOfFile(bytesToDecode) == bytesToDecode = 0

\* The test for the end of the extension, made against '.'.
IsDot(decodedByte) == decodedByte = 46

\* `decodedByte == ' '` in unzip: the symbol ends the extension.
IsSeparator(decodedByte) == decodedByte = separator

\* The bit loops of unzip over one source byte, from `mask` down.  st holds
\* nodePtr, bytesToDecode (a size_t: a negative value -k stands for 2^64 - k),
\* outOpen (the separator was decoded and the output file created), destExt
\* (the bytes appended to destPath), outFile (the bytes put to the output
\* file) and done (unzip returned).  getLeft and getRight, which unzip calls
\* and HuffmanTreeNode does not declare, are getLeftSubtree and
\* getRightSubtree.
RECURSIVE DecodeBits(_, _, _, _)
DecodeBits(st, root, srcByte, mask) ==
    IF mask = 0 \/ st.done THEN st
    ELSE LET next == IF BitAnd(srcByte, mask) = 0
                     THEN getLeftSubtree(st.nodePtr)
                     ELSE getRightSubtree(st.nodePtr)
         IN  IF ~isLeaf(next)
             THEN DecodeBits([st EXCEPT !.nodePtr = next], root, srcByte, mask \div 2)
             ELSE LET decodedByte == next.originalByte
                      counted == [st EXCEPT !.bytesToDecode = @ - 1, !.nodePtr = root]
                  IN  IF ~st.outOpen
                      THEN IF IsSeparator(decodedByte)
                           THEN DecodeBits([counted EXCEPT
                                               !.outOpen = TRUE,
                                               !.done = EndOfFile(counted.bytesToDecode)],
                                           root, srcByte, mask \div 2)
                           ELSE DecodeBits([counted EXCEPT
                                               !.destExt = Append(@, decodedByte)],
                                           root, srcByte, mask \div 2)
                      ELSE DecodeBits([counted EXCEPT
                                          !.outFile = Append(@, decodedByte),
                                          !.done = EndOfFile(counted.bytesToDecode),
                                          !.nodePtr = IF EndOfFile(counted.bytesToDecode)
                                                      THEN next ELSE root],
                                      root, srcByte, mask \div 2)

\* ------------------------------------------------------------------- state

VARIABLES
    argc,               \* main: the argument count
    srcPath,            \* main: whether srcPath has an explicit extension
                        \* (dotted) and names a file that can be opened (exists)
    exitStatus,         \* main: the status this run of main returned
    srcExt,             \* the extension of the source file's path
    srcContent,         \* the bytes of the source file
    pc,                 \* where the program is
    zipTree,            \* huffmanTree of zip
    unzipTree,          \* huffmanTree of unzip
    tempLeaves,         \* tempLeaves of buildMinHeapFromLeaves
    hzFile,             \* the bytes of the compressed file
    headerSize,         \* the number of bytes of hzFile before the body
    cut,                \* the number of bytes cut from the end of hzFile
    srcBuffer,          \* zip: srcBuffer[0 .. bytesRead - 1]
    srcPos,             \* zip: the read offset of srcFile
    i,                  \* zip: the index into srcBuffer
    destBuffer,         \* zip: the stored prefix of destBuffer
    destBufferFreeBits, \* zip
    destOOB,            \* zip: the stores <<index, byte>> made outside destBuffer
    flushes,            \* zip: the lengths of the writes of destBuffer so far
    inBuffer,           \* unzip: srcBuffer[0 .. bytesRead - 1]
    inPos,              \* unzip: the read offset of srcFile
    currentByte,        \* unzip
    decoder,            \* unzip: nodePtr, bytesToDecode and what was decoded
    overrun             \* unzip: source bytes fetched from beyond bytesRead

vars == <<argc, srcPath, exitStatus, srcExt, srcContent, pc, zipTree, unzipTree, tempLeaves, hzFile,
          headerSize, cut, srcBuffer, srcPos, i, destBuffer, destBufferFreeBits,
          destOOB, flushes, inBuffer, inPos, currentByte, decoder, overrun>>

zipVars == <<srcBuffer, srcPos, i, destBuffer, destBufferFreeBits, destOOB, flushes>>

unzipVars == <<inBuffer, inPos, currentByte, decoder, overrun>>

\* The symbol stream of a source file: extension, separator, content.
Stream(ext, content) == ext \o <<separator>> \o content

\* Values an object holds where the program never stored one.
UninitBytes == {0, 85, 255}

\* ------------------------------------------------------------------ inputs

SeqsUpTo(S, n) == UNION {[1..k -> S] : k \in 0..n}

ExtAlphabet == {97, 98}

ContentAlphabet == {32, 97, 99}

SmallInputs ==
    {[ext |-> e, content |-> c] :
        e \in SeqsUpTo(ExtAlphabet, MaxExtLen),
        c \in SeqsUpTo(ContentAlphabet, MaxContentLen)}

\* "aaab" with extension "txt"; five 'A' with the empty extension; an
\* extension whose codewords fill more than one byte; a byte that occurs 256
\* times; all 256 byte values.
ScenarioInputs ==
    {[ext |-> <<116, 120, 116>>, content |-> <<97, 97, 97, 98>>],
     [ext |-> <<>>, content |-> <<65, 65, 65, 65, 65>>],
     [ext |-> <<97, 98, 99, 100, 101>>, content |-> <<97>>],
     [ext |-> <<98>>, content |-> [k \in 1..256 |-> 97]],
     [ext |-> <<97>>, content |-> [k \in 1..ALPHABET_SIZE |-> k - 1]]}

\* argc: 1 (the path is read from std::cin), 2 (the path is argv[1]) or 3.
ArgCounts == 1..3

\* What getExtension and InputFileRAII find out about srcPath.
PathKinds == [dotted : BOOLEAN, exists : BOOLEAN]

\* A path without an extension, or one that names no file, comes with no
\* extension bytes and no content.
InitWith(inputs) ==
    /\ argc \in ArgCounts
    /\ \E f \in inputs : \E kind \in PathKinds :
         /\ (kind.dotted /\ kind.exists) \/ (f.ext = <<>> /\ f.content = <<>>)
         /\ srcPath = kind
         /\ srcExt = f.ext
         /\ srcContent = f.content
    /\ exitStatus = NoStatus
    /\ pc = "main"
    /\ zipTree = EmptyTree
    /\ unzipTree = EmptyTree
    /\ tempLeaves = <<>>
    /\ hzFile = <<>>
    /\ headerSize = 0
    /\ cut = 0
    /\ srcBuffer = <<>>
    /\ srcPos = 0
    /\ i = 0
    /\ destBuffer = <<>>
    /\ destBufferFreeBits = destBufferNumBits
    /\ destOOB = {}
    /\ flushes = <<>>
    /\ inBuffer = <<>>
    /\ inPos = 0
    /\ currentByte = 0
    /\ decoder = [nodePtr |-> NullPtr, bytesToDecode |-> 0, outOpen |-> FALSE,
                  destExt |-> <<>>, outFile |-> <<>>, done |-> FALSE]
    /\ overrun = 0

Init == InitWith(SmallInputs \cup ScenarioInputs)

\* Sources longer than BUFFER_SIZE whose body is longer than destBuffer: 1400
\* bytes that cycle through 64 values; the same with one rare byte, placed
\* so that a short codeword starts in the last byte of destBuffer; the same
\* with two rare bytes, placed so that a 9-bit codeword starts in the last
\* but one byte of destBuffer and ends beyond it.
BigContent(rare) ==
    [k \in 1..1400 |-> IF k \in DOMAIN rare THEN rare[k] ELSE ((k - 1) % 64) + 64]

BigInputs ==
    {[ext |-> <<97, 98>>, content |-> BigContent(<<>>)],
     [ext |-> <<97, 98>>, content |-> BigContent(1025 :> 1)],
     [ext |-> <<97, 98>>, content |-> BigContent((1358 :> 1) @@ (1359 :> 2))]}

InitBig == InitWith(SmallInputs \cup BigInputs)

\* A compressed file of 19 symbols, 1 .. 19, with two bytes per frequency,
\* the frequencies 4181, 2584, ..., 2, 1, 1: each merge of the tree joins the
\* result of the one before with one more leaf, down to a depth of 18.
SkewedFile ==
    <<19, 2,
       1, 16, 85,  2, 10, 24,  3, 6, 61,  4, 3, 219,
       5, 2, 98,  6, 1, 121,  7, 0, 233,  8, 0, 144,
       9, 0, 89,  10, 0, 55,  11, 0, 34,  12, 0, 21,
       13, 0, 13,  14, 0, 8,  15, 0, 5,  16, 0, 3,
       17, 0, 2,  18, 0, 1,  19, 0, 1,
       0, 165>>

\* Files named *.hzip that zip did not write, handed to unzip by main:
\* headers that declare zero symbols, without and with a body, and the file
\* of extension "a" and content "a" with the leaves ('a', 2), (' ', 1).
ForeignFiles ==
    {<<0, 1>>, <<0, 0>>, <<0, 1, 70>>, <<2, 1, 97, 2, 32, 1, 160>>, SkewedFile}

\* The source files of SmallInputs, or main called on a foreign file.
InitForeign ==
    \/ InitWith(SmallInputs)
    \/ /\ \E f \in ForeignFiles :
             /\ hzFile = f
             /\ headerSize = 2 + f[1] * (f[2] + 1)
        /\ argc \in ArgCounts
        /\ \E e \in BOOLEAN : srcPath = [dotted |-> TRUE, exists |-> e]
        /\ exitStatus = NoStatus
        /\ srcExt = hzip
        /\ srcContent = <<>>
        /\ pc = "main"
        /\ zipTree = EmptyTree
        /\ unzipTree = EmptyTree
        /\ tempLeaves = <<>>
        /\ cut = 0
        /\ srcBuffer = <<>>
        /\ srcPos = 0
        /\ i = 0
        /\ destBuffer = <<>>
        /\ destBufferFreeBits = destBufferNumBits
        /\ destOOB = {}
        /\ flushes = <<>>
        /\ inBuffer = <<>>
        /\ inPos = 0
        /\ currentByte = 0
        /\ decoder = [nodePtr |-> NullPtr, bytesToDecode |-> 0, outOpen |-> FALSE,
                      destExt |-> <<>>, outFile |-> <<>>, done |-> FALSE]
        /\ overrun = 0

\* -------------------------------------------------------------------- zip

\* main up to the call of zip or unzip.  More than one argument is status 1.
\* is_hzip (isHzip of pathmgr.cpp) is called outside the try blocks: the
\* exception getExtension throws for a path without an extension leaves main
\* uncaught and the program is terminated.  A compressed file is on disk
\* where pc = "zipped".
Main ==
    /\ pc = "main"
    /\ IF argc > 2
       THEN pc' = "exited" /\ exitStatus' = 1
       ELSE IF ~srcPath.dotted
       THEN pc' = "terminated" /\ UNCHANGED exitStatus
       ELSE /\ pc' = IF srcExt = hzip THEN "zipped" ELSE "start"
            /\ UNCHANGED exitStatus
    /\ UNCHANGED <<argc, srcPath, srcExt, srcContent, zipTree, unzipTree, tempLeaves,
                   hzFile, headerSize, cut>>
    /\ UNCHANGED <<zipVars, unzipVars>>

\* HuffmanTree(srcFilePath), up to the call of buildMinHeapFromLeaves: the
\* frequencies are counted and the leaves seeded.  When the file cannot be
\* opened InputFileRAII throws and main returns 3.
ZipSeedLeaves ==
    /\ pc = "start"
    /\ IF ~srcPath.exists
       THEN /\ pc' = "exited"
            /\ exitStatus' = 3
            /\ UNCHANGED <<zipTree, tempLeaves>>
       ELSE LET leaves == SeedLeaves(Histogram(Stream(srcExt, srcContent)),
                                     0, ALPHABET_SIZE, <<>>)
            IN  /\ zipTree' = [zipTree EXCEPT !.leaves = leaves]
                /\ tempLeaves' = leaves
                /\ pc' = "zip_merge"
                /\ UNCHANGED exitStatus
    /\ UNCHANGED <<argc, srcPath, srcExt, srcContent, unzipTree, hzFile, headerSize, cut>>
    /\ UNCHANGED <<zipVars, unzipVars>>

\* One iteration of the loop of buildMinHeapFromLeaves, in zip or in unzip.
BuildMinHeapStep ==
    /\ pc \in {"zip_merge", "unzip_merge"}
    /\ Len(tempLeaves) > 1
    /\ tempLeaves' = MergeStep(tempLeaves)
    /\ UNCHANGED <<argc, srcPath, exitStatus, srcExt, srcContent, pc, zipTree, unzipTree, hzFile, headerSize, cut>>
    /\ UNCHANGED <<zipVars, unzipVars>>

\* The end of buildMinHeapFromLeaves and buildEncodingDict, in zip.  A root
\* that is a leaf has no subtrees: buildEncodingDict hands a null pointer to
\* setEncodings, which dereferences it.
ZipTreeBuilt ==
    /\ pc = "zip_merge"
    /\ Len(tempLeaves) = 1
    /\ LET root == tempLeaves[1]
       IN  IF isLeaf(root)
           THEN /\ zipTree' = [zipTree EXCEPT !.root = root]
                /\ pc' = "zip_ub"
           ELSE /\ zipTree' = [zipTree EXCEPT !.root = root,
                                              !.encodingDict = buildEncodingDict(root)]
                /\ pc' = "zip_header"
    /\ UNCHANGED <<argc, srcPath, exitStatus, srcExt, srcContent, unzipTree, tempLeaves, hzFile, headerSize, cut>>
    /\ UNCHANGED <<zipVars, unzipVars>>

\* zip from the opening of the files to the first read: the header is
\* written and the first chunk, led by the extension and the separator, is
\* in srcBuffer.  With 256 leaves uniqueBytes is 0 and the array allocated
\* for the header holds 2 bytes, which the loop over the leaves overruns: the
\* program may die there or go on.
ZipWriteHeader ==
    /\ pc = "zip_header"
    /\ LET header     == writeHuffmanMetadata(zipTree.leaves)
           srcFileExt == Append(srcExt, separator)
           chunk      == ReadChunk(srcContent, 0, BUFFER_SIZE - Len(srcFileExt))
           overruns   == Len(zipTree.leaves) > UniqueBytes(zipTree.leaves)
       IN  \E outcome \in (IF overruns THEN {"zip_ub", "zip_encode"} ELSE {"zip_encode"}) :
             /\ pc' = outcome
             /\ hzFile' = IF outcome = "zip_ub" THEN hzFile ELSE header
             /\ headerSize' = IF outcome = "zip_ub" THEN headerSize ELSE Len(header)
             /\ srcBuffer' = srcFileExt \o chunk
             /\ srcPos' = Len(chunk)
    /\ i' = 0
    /\ destBuffer' = <<>>
    /\ destBufferFreeBits' = destBufferNumBits
    /\ UNCHANGED <<argc, srcPath, exitStatus, srcExt, srcContent, zipTree, unzipTree, tempLeaves, cut,
                   destOOB, flushes>>
    /\ UNCHANGED unzipVars

\* One iteration of the loop over srcBuffer: the codeword of srcBuffer[i] is
\* packed into destBuffer, which is written out when it is full.
ZipEncodeByte ==
    /\ pc = "zip_encode"
    /\ i < Len(srcBuffer)
    /\ LET bitsWritten     == destBufferNumBits - destBufferFreeBits
           destBufferIndex == bitsWritten \div 8
           shr             == bitsWritten % 8
           looked          == DictAt(zipTree.encodingDict, srcBuffer[i + 1])
           freeBits        == destBufferFreeBits - looked.numberOfBits
           encodedByte     == shiftRight(looked, shr)
       IN  IF freeBits <= 0
           THEN LET full == DestOr(destBuffer, destBufferIndex, encodedByte.codeword[1])
                    rest == EncodedByte(Tail(encodedByte.codeword),
                                        encodedByte.numberOfBits - 8)
                IN  /\ hzFile' = hzFile \o SubSeq(full, 1, destBufferIndex + 1)
                    /\ flushes' = Append(flushes, destBufferIndex + 1)
                    /\ IF Len(encodedByte.codeword) = 1
                       THEN /\ destBuffer' = <<>>
                            /\ destBufferFreeBits' = destBufferNumBits
                            /\ destOOB' = destOOB
                       ELSE LET stored == StoreCodeword(<<>>, destOOB, rest.codeword, 1, 0)
                            IN  /\ destBuffer' = stored.buffer
                                /\ destOOB' = stored.oob
                                /\ destBufferFreeBits' = destBufferNumBits - rest.numberOfBits
           ELSE LET stored == StoreCodeword(destBuffer, destOOB, encodedByte.codeword,
                                            1, destBufferIndex)
                IN  /\ destBuffer' = stored.buffer
                    /\ destOOB' = stored.oob
                    /\ destBufferFreeBits' = freeBits
                    /\ UNCHANGED <<hzFile, flushes>>
    /\ i' = i + 1
    /\ UNCHANGED <<argc, srcPath, exitStatus, srcExt, srcContent, pc, zipTree, unzipTree, tempLeaves,
                   headerSize, cut, srcBuffer, srcPos>>
    /\ UNCHANGED unzipVars

\* The read at the end of the do-while body and its test.
ZipReadChunk ==
    /\ pc = "zip_encode"
    /\ i = Len(srcBuffer)
    /\ LET chunk == ReadChunk(srcContent, srcPos, BUFFER_SIZE)
       IN  /\ srcBuffer' = chunk
           /\ srcPos' = srcPos + Len(chunk)
           /\ pc' = IF Len(chunk) > 0 THEN "zip_encode" ELSE "zip_flush"
    /\ i' = 0
    /\ UNCHANGED <<argc, srcPath, exitStatus, srcExt, srcContent, zipTree, unzipTree, tempLeaves, hzFile,
                   headerSize, cut, destBuffer, destBufferFreeBits, destOOB, flushes>>
    /\ UNCHANGED unzipVars

\* The write of the remaining bits, the return of zip and of main.
ZipFlush ==
    /\ pc = "zip_flush"
    /\ LET remainingBits  == destBufferNumBits - destBufferFreeBits
           remainingBytes == (remainingBits + 7) \div 8
       IN  hzFile' = IF destBufferFreeBits < destBufferNumBits
                     THEN hzFile \o [k \in 1..remainingBytes |-> DestAt(destBuffer, k - 1)]
                     ELSE hzFile
    /\ pc' = "zipped"
    /\ exitStatus' = 0
    /\ UNCHANGED <<argc, srcPath, srcExt, srcContent, zipTree, unzipTree, tempLeaves, headerSize, cut>>
    /\ UNCHANGED <<zipVars, unzipVars>>

\* ------------------------------------------------------------ environment

\* The compressed file loses its last k bytes, all of them bytes of the body.
Truncate ==
    /\ pc = "zipped"
    /\ cut = 0
    /\ \E k \in 1..MaxCut :
         /\ k <= Len(hzFile) - headerSize
         /\ hzFile' = SubSeq(hzFile, 1, Len(hzFile) - k)
         /\ cut' = k
    /\ UNCHANGED <<argc, srcPath, exitStatus, srcExt, srcContent, pc, zipTree, unzipTree, tempLeaves, headerSize>>
    /\ UNCHANGED <<zipVars, unzipVars>>

\* ------------------------------------------------------------------ unzip

\* main called on the compressed file, and unzip up to
\* buildMinHeapFromLeaves: readHuffmanMetadata and buildLeavesFromMetadata.
\* With bytesForFreq = 0 the frequency of the last leaf is read from past the
\* end of the metadata array.  When the file cannot be opened InputFileRAII
\* throws and main returns 2.
UnzipReadHeader ==
    /\ pc = "zipped"
    /\ IF ~srcPath.exists
       THEN /\ pc' = "exited"
            /\ exitStatus' = 2
            /\ UNCHANGED <<unzipTree, tempLeaves, inPos>>
       ELSE LET uniqueBytes  == hzFile[1]
                bytesForFreq == hzFile[2]
                huffmanMetadataSize == uniqueBytes * (bytesForFreq + 1) + 2
                huffmanMetadata == ReadChunk(hzFile, 0, huffmanMetadataSize)
                readsBeyond == uniqueBytes > 0 /\ bytesForFreq = 0
            IN  /\ \E beyond \in (IF readsBeyond THEN UninitBytes ELSE {0}) :
                     LET leaves == buildLeavesFromMetadata(huffmanMetadata, beyond)
                     IN  /\ unzipTree' = [unzipTree EXCEPT !.leaves = leaves]
                         /\ tempLeaves' = leaves
                         /\ inPos' = Len(huffmanMetadata)
                /\ pc' = "unzip_merge"
                /\ exitStatus' = NoStatus
    /\ UNCHANGED <<argc, srcPath, srcExt, srcContent, zipTree, hzFile, headerSize, cut>>
    /\ UNCHANGED <<zipVars, inBuffer, currentByte, decoder, overrun>>

\* The end of buildMinHeapFromLeaves and buildEncodingDict in unzip, then
\* unzip up to its loop: the first chunk is read.  front() of an empty
\* tempLeaves and the subtrees of a root that is a leaf are both undefined.
\* With nothing read the loop is skipped and unzip throws.
UnzipTreeBuilt ==
    /\ pc = "unzip_merge"
    /\ Len(tempLeaves) <= 1
    /\ IF Len(tempLeaves) = 0 \/ isLeaf(tempLeaves[1])
       THEN /\ pc' = "unzip_ub"
            /\ UNCHANGED <<unzipTree, inBuffer, inPos, decoder>>
       ELSE LET root  == tempLeaves[1]
                chunk == ReadChunk(hzFile, inPos, BUFFER_SIZE)
            IN  /\ unzipTree' = [unzipTree EXCEPT !.root = root,
                                                  !.encodingDict = buildEncodingDict(root)]
                /\ decoder' = [decoder EXCEPT !.nodePtr = root,
                                              !.bytesToDecode = root.frequency]
                /\ inBuffer' = chunk
                /\ inPos' = inPos + Len(chunk)
                /\ pc' = IF Len(chunk) > 0 THEN "unzip_decode" ELSE "unzip_error"
    /\ exitStatus' = IF pc' = "unzip_error" THEN 2 ELSE exitStatus
    /\ currentByte' = 0
    /\ UNCHANGED <<argc, srcPath, srcExt, srcContent, zipTree, tempLeaves, hzFile, headerSize, cut,
                   overrun>>
    /\ UNCHANGED zipVars

\* One source byte of unzip: its bits are walked from mask 0x80 down, then
\* currentByte moves on.  Before the separator is decoded nothing compares
\* currentByte with bytesRead; afterwards the next chunk is read when they
\* are equal, and unzip throws when that read is empty.  srcBuffer[currentByte]
\* with currentByte >= bytesRead is a byte that was never read from the file.
UnzipDecodeByte ==
    /\ pc = "unzip_decode"
    /\ currentByte < Len(inBuffer) \/ overrun < MaxOverrun
    /\ \E srcByte \in (IF currentByte < Len(inBuffer)
                       THEN {inBuffer[currentByte + 1]}
                       ELSE UninitBytes) :
         LET st == DecodeBits(decoder, unzipTree.root, srcByte, 128)
             refill == st.outOpen /\ currentByte + 1 = Len(inBuffer)
             chunk == ReadChunk(hzFile, inPos, BUFFER_SIZE)
         IN  /\ decoder' = st
             /\ IF st.done
                THEN /\ pc' = "unzip_ok"
                     /\ UNCHANGED <<currentByte, inBuffer, inPos>>
                ELSE IF refill
                THEN /\ currentByte' = 0
                     /\ inPos' = inPos + Len(chunk)
                     /\ inBuffer' = IF Len(chunk) > 0 THEN chunk ELSE inBuffer
                     /\ pc' = IF Len(chunk) > 0 THEN "unzip_decode" ELSE "unzip_error"
                ELSE /\ currentByte' = currentByte + 1
                     /\ UNCHANGED <<pc, inBuffer, inPos>>
    /\ exitStatus' = IF pc' = "unzip_ok" THEN 0
                     ELSE IF pc' = "unzip_error" THEN 2
                     ELSE exitStatus
    /\ overrun' = IF currentByte < Len(inBuffer) THEN overrun ELSE overrun + 1
    /\ UNCHANGED <<argc, srcPath, srcExt, srcContent, zipTree, unzipTree, tempLeaves, hzFile,
                   headerSize, cut>>
    /\ UNCHANGED zipVars

\* ------------------------------------------------------------ specification

Next ==
    \/ Main
    \/ ZipSeedLeaves
    \/ BuildMinHeapStep
    \/ ZipTreeBuilt
    \/ ZipWriteHeader
    \/ ZipEncodeByte
    \/ ZipReadChunk
    \/ ZipFlush
    \/ Truncate
    \/ UnzipReadHeader
    \/ UnzipTreeBuilt
    \/ UnzipDecodeByte

Spec == Init /\ [][Next]_vars

SpecBig == InitBig /\ [][Next]_vars

SpecForeign == InitForeign /\ [][Next]_vars

\* ------------------------------------------------------------- properties

\* Bit j (0 is the first) of a codeword: the bits of each byte from the most
\* significant down.
BitAt(codeword, j) == (codeword[(j \div 8) + 1] \div (2 ^ (7 - (j % 8)))) % 2

\* The bits of an EncodedByte, as a sequence.
CodeBits(encodedByte) ==
    [j \in 1..encodedByte.numberOfBits |-> BitAt(encodedByte.codeword, j - 1)]

IsPrefix(a, b) == Len(a) <= Len(b) /\ SubSeq(b, 1, Len(a)) = a

PrefixFree(dict) ==
    \A x \in DOMAIN dict : \A y \in DOMAIN dict :
        x # y => ~IsPrefix(CodeBits(dict[x]), CodeBits(dict[y]))

\* The codewords of stream[lo..hi], concatenated.
RECURSIVE StreamBits(_, _, _, _)
StreamBits(stream, dict, lo, hi) ==
    IF lo > hi THEN <<>>
    ELSE IF lo = hi THEN CodeBits(dict[stream[lo]])
    ELSE LET mid == (lo + hi) \div 2
         IN  StreamBits(stream, dict, lo, mid) \o StreamBits(stream, dict, mid + 1, hi)

\* A bit sequence packed into bytes, the first bit the most significant,
\* the last byte filled up with zeros.
PackBits(bits) ==
    LET bit(n) == IF n <= Len(bits) THEN bits[n] ELSE 0
    IN  [k \in 1..((Len(bits) + 7) \div 8) |->
            bit(8 * k - 7) * 128 + bit(8 * k - 6) * 64 + bit(8 * k - 5) * 32
              + bit(8 * k - 4) * 16 + bit(8 * k - 3) * 8 + bit(8 * k - 2) * 4
              + bit(8 * k - 1) * 2 + bit(8 * k)]

\* The frequency that w bytes hold, the first the most significant.
RECURSIVE BigEndian(_)
BigEndian(bytes) ==
    IF bytes = <<>> THEN 0
    ELSE 256 * BigEndian(SubSeq(bytes, 1, Len(bytes) - 1)) + bytes[Len(bytes)]

\* The body of the compressed file.
Body == SubSeq(hzFile, headerSize + 1, Len(hzFile))

\* zip wrote the header.
HeaderWritten == pc \in {"zip_encode", "zip_flush", "zipped"}

\* unzip built its tree, or failed to.
UnzipBuilt == pc \in {"unzip_decode", "unzip_ok", "unzip_error", "unzip_ub"}

\* unzip is decoding, or has ended, a file whose header gave it the leaves of
\* the encoder.
Decoding == /\ pc \in {"unzip_decode", "unzip_ok", "unzip_error"}
            /\ unzipTree.leaves = zipTree.leaves

\* The symbols unzip decoded so far.
Emitted ==
    Len(decoder.destExt) + (IF decoder.outOpen THEN 1 ELSE 0) + Len(decoder.outFile)

\* C1: decompressing the output of compression (the file not cut) never
\* fails, never runs into undefined behaviour, and when it ends it has
\* restored the extension and the content of the source.
C1_RoundTrip ==
    cut = 0 =>
        /\ pc \notin {"zip_ub", "unzip_ub", "unzip_error"}
        /\ overrun = 0
        /\ pc = "unzip_ok" =>
              decoder.destExt = srcExt /\ decoder.outFile = srcContent

\* C2: with m the highest frequency, the width w written to the header is at
\* least 1 and is the least number of bytes that hold m (256^w > m), and the
\* frequencies read back from the header are the ones written.
C2_HeaderSizing ==
    HeaderWritten =>
        LET m == zipTree.leaves[1].frequency
            w == hzFile[2]
        IN  /\ w >= 1
            /\ m < 256 ^ w
            /\ m >= 256 ^ (w - 1)
            /\ \A beyond \in UninitBytes :
                 buildLeavesFromMetadata(SubSeq(hzFile, 1, headerSize), beyond)
                     = zipTree.leaves

\* C3: on a compressed file that lost bytes of its body, unzip never fetches
\* a byte beyond those it read and never reports success, also while it is
\* still decoding the extension.
C3_TruncationFatal ==
    (cut > 0 /\ Decoding) => (overrun = 0 /\ pc # "unzip_ok")

\* C4: the tree unzip builds from the header is the tree zip built: the same
\* leaves in the same order and the same root.
C4_TreeIdentity ==
    UnzipBuilt =>
        /\ unzipTree.leaves = zipTree.leaves
        /\ unzipTree.root = zipTree.root

\* C5: in every codeword table built by buildEncodingDict no codeword is a
\* prefix of the codeword of another symbol.
C5_PrefixFree ==
    /\ pc = "zip_header" => PrefixFree(zipTree.encodingDict)
    /\ UnzipBuilt => PrefixFree(unzipTree.encodingDict)

\* C5: a table of at least three codewords of different lengths was built.
C5_Witness ==
    /\ pc = "zip_header"
    /\ Cardinality(DOMAIN zipTree.encodingDict) >= 3
    /\ \E x, y \in DOMAIN zipTree.encodingDict :
         zipTree.encodingDict[x].numberOfBits < zipTree.encodingDict[y].numberOfBits

\* C6: a source with a single symbol is compressed without failure, its
\* symbol getting the 1-bit codeword 0.
C6_SingleSymbol ==
    (Len(zipTree.leaves) = 1 /\ pc # "zip_merge") =>
        /\ pc # "zip_ub"
        /\ zipTree.encodingDict =
               (zipTree.leaves[1].originalByte :> EncodedByte(<<0>>, 1))

\* C7: on a well-formed file (not cut, its header giving the leaves of the
\* encoder) the counter starts at the root frequency, the number of symbols
\* encoded, and falls by one per symbol decoded; unzip ends, with success,
\* exactly when it reaches zero, having decoded root-frequency symbols and
\* none from the pad bits, without error and without fetching a byte it did
\* not read.
C7_StopsAtZero ==
    (cut = 0 /\ Decoding) =>
        /\ pc # "unzip_error"
        /\ overrun = 0
        /\ decoder.bytesToDecode >= 0
        /\ unzipTree.root.frequency = Len(Stream(srcExt, srcContent))
        /\ Emitted + decoder.bytesToDecode = unzipTree.root.frequency
        /\ (pc = "unzip_ok") <=> (decoder.bytesToDecode = 0)

\* C7: unzip ended on a well-formed file whose last byte has pad bits, after
\* decoding at least two bytes of content.
C7_Witness ==
    /\ cut = 0
    /\ Decoding
    /\ pc = "unzip_ok"
    /\ Len(decoder.outFile) >= 2
    /\ Len(StreamBits(Stream(srcExt, srcContent), zipTree.encodingDict,
                      1, Len(srcExt) + 1 + Len(srcContent))) % 8 # 0

\* C8: when zip returns, the body of the compressed file is the codewords of
\* the symbols of the stream, in order, packed from the most significant bit
\* of each byte, the last byte padded with zeros: ceil(bits / 8) bytes,
\* however many times destBuffer was written out on the way.
C8_BodyIsPackedCodewords ==
    (pc = "zipped" /\ cut = 0) =>
        Body = PackBits(StreamBits(Stream(srcExt, srcContent), zipTree.encodingDict,
                                   1, Len(srcExt) + 1 + Len(srcContent)))

\* C8: zip returned after destBuffer was written out in mid-stream, and the
\* last byte of the body has pad bits.
C8_Witness ==
    /\ pc = "zipped"
    /\ cut = 0
    /\ Len(flushes) >= 1
    /\ Len(Body) > flushes[1]
    /\ Len(StreamBits(Stream(srcExt, srcContent), zipTree.encodingDict,
                      1, Len(srcExt) + 1 + Len(srcContent))) % 8 # 0

\* C9: the header is the symbol count (256 written as 0) at offset 0, the
\* width w at offset 1, then, for each leaf in the order of the leaves, the
\* symbol and its frequency in w bytes, the most significant first:
\* 2 + count * (1 + w) bytes.
C9_HeaderLayout ==
    HeaderWritten =>
        LET leaves == zipTree.leaves
            w      == hzFile[2]
        IN  /\ hzFile[1] = Len(leaves) % 256
            /\ headerSize = 2 + Len(leaves) * (1 + w)
            /\ \A n \in 1..Len(leaves) :
                 LET idx == 2 + (n - 1) * (1 + w)
                 IN  /\ hzFile[idx + 1] = leaves[n].originalByte
                     /\ BigEndian(SubSeq(hzFile, idx + 2, idx + 1 + w))
                            = leaves[n].frequency

\* C10: a source in which all 256 byte values occur is compressed without
\* failure, and unzip reads the count of its header as 256 leaves.
C10_FullAlphabet ==
    Len(zipTree.leaves) = ALPHABET_SIZE =>
        /\ pc # "zip_ub"
        /\ pc # "unzip_ub"
        /\ pc \in {"unzip_merge", "unzip_decode", "unzip_ok", "unzip_error"} =>
              Len(unzipTree.leaves) = ALPHABET_SIZE

\* C11: when the header of the compressed file declares zero symbols, unzip
\* ends by raising an error to its caller: it takes no root from the empty
\* node sequence and walks no tree.
C11_ZeroSymbolsIsError ==
    (UnzipBuilt /\ hzFile[1] = 0) => pc = "unzip_error"

\* C12: no error escapes main uncaught, a path without an explicit
\* extension included; main returns 1 for more than one argument, 2 when
\* unzip failed, 3 when zip failed, and 0 when zip or unzip returned.
C12_ErrorsReachMain ==
    /\ pc # "terminated"
    /\ (argc > 2 /\ pc # "main") => exitStatus = 1
    /\ (argc <= 2 /\ pc = "exited") => exitStatus = (IF srcExt = hzip THEN 2 ELSE 3)
    /\ pc = "unzip_error" => exitStatus = 2
    /\ pc = "unzip_ok" => exitStatus = 0
    /\ (pc = "zipped" /\ srcExt # hzip) => exitStatus = 0
    /\ exitStatus = 0 => pc \in {"zipped", "unzip_ok"}

\* zip has just seeded its leaves.
Seeded == pc = "zip_merge" /\ tempLeaves = zipTree.leaves

\* C13 as stated: the seeded leaf list is in non-increasing frequency order
\* and symbols of equal frequency appear in ascending symbol value.
C13_TiesAscending ==
    Seeded =>
        \A j \in 1..Len(zipTree.leaves) : \A k \in (j + 1)..Len(zipTree.leaves) :
            /\ zipTree.leaves[j].frequency >= zipTree.leaves[k].frequency
            /\ zipTree.leaves[j].frequency = zipTree.leaves[k].frequency =>
                  zipTree.leaves[j].originalByte < zipTree.leaves[k].originalByte

\* C13 amended: the seeded leaf list is in non-increasing frequency order
\* and symbols of equal frequency appear in descending symbol value.
C13_TiesDescending ==
    Seeded =>
        \A j \in 1..Len(zipTree.leaves) : \A k \in (j + 1)..Len(zipTree.leaves) :
            /\ zipTree.leaves[j].frequency >= zipTree.leaves[k].frequency
            /\ zipTree.leaves[j].frequency = zipTree.leaves[k].frequency =>
                  zipTree.leaves[j].originalByte > zipTree.leaves[k].originalByte

\* C13: leaves were seeded of which two have the same frequency and a third
\* another one.
C13_Witness ==
    /\ Seeded
    /\ \E j, k, l \in 1..Len(zipTree.leaves) :
         /\ j < k
         /\ zipTree.leaves[j].frequency = zipTree.leaves[k].frequency
         /\ zipTree.leaves[l].frequency # zipTree.leaves[j].frequency

\* The merge step took `before` to `after`: the last two nodes are gone and
\* their parent stands at position k of the rest.
MergedAt(before, after, k) ==
    LET n == Len(before)
    IN  after = InsertAt(SubSeq(before, 1, n - 2), k, Internal(before[n], before[n - 1]))

\* C14 as stated: every merge step puts the new node before the first
\* element of lesser frequency, after all elements of equal frequency, and
\* keeps the order of the others.
C14_AfterEquals ==
    [][BuildMinHeapStep =>
          \E k \in 1..Len(tempLeaves') :
              LET f == tempLeaves'[k].frequency
              IN  /\ MergedAt(tempLeaves, tempLeaves', k)
                  /\ \A j \in 1..(k - 1) : tempLeaves'[j].frequency >= f
                  /\ \A j \in (k + 1)..Len(tempLeaves') : tempLeaves'[j].frequency < f]_vars

\* C14 amended: every merge step puts the new node before the first element
\* whose frequency is less than or equal to its own, so before all elements
\* of equal frequency, and keeps the order of the others.
C14_BeforeEquals ==
    [][BuildMinHeapStep =>
          \E k \in 1..Len(tempLeaves') :
              LET f == tempLeaves'[k].frequency
              IN  /\ MergedAt(tempLeaves, tempLeaves', k)
                  /\ \A j \in 1..(k - 1) : tempLeaves'[j].frequency > f
                  /\ k < Len(tempLeaves') => tempLeaves'[k + 1].frequency <= f]_vars

\* C14: a merge step put the new node right before a node of its frequency.
C14_Witness ==
    /\ pc \in {"zip_merge", "unzip_merge"}
    /\ \E k \in 1..(Len(tempLeaves) - 1) :
         /\ ~isLeaf(tempLeaves[k])
         /\ isLeaf(tempLeaves[k + 1])
         /\ tempLeaves[k + 1].frequency = tempLeaves[k].frequency

\* buildMinHeapFromLeaves is at the head of its loop, on leaves that zip
\* seeded (in zip, or in unzip when the header gave it those leaves).
MergingSeeded ==
    \/ pc = "zip_merge"
    \/ pc = "unzip_merge" /\ unzipTree.leaves = zipTree.leaves

\* zip is past buildMinHeapFromLeaves.
ZipBuilt == pc \in {"zip_ub", "zip_header", "zip_encode", "zip_flush"}

\* C15: on leaves seeded by the encoder, before every merge step the working
\* sequence is in non-increasing frequency order, so the two nodes at its
\* tail are two of the smallest frequency; the loop ends with exactly one
\* node, which is the root.
C15_WorkingSequence ==
    /\ MergingSeeded =>
          LET n == Len(tempLeaves)
          IN  /\ n >= 1
              /\ \A k \in 1..(n - 1) :
                    tempLeaves[k].frequency >= tempLeaves[k + 1].frequency
              /\ n >= 2 =>
                    \A k \in 1..(n - 2) :
                        /\ tempLeaves[k].frequency >= tempLeaves[n].frequency
                        /\ tempLeaves[k].frequency >= tempLeaves[n - 1].frequency
    /\ ZipBuilt => Len(tempLeaves) = 1 /\ zipTree.root = tempLeaves[1]
    /\ (UnzipBuilt /\ unzipTree.leaves = zipTree.leaves /\ pc # "unzip_ub") =>
          Len(tempLeaves) = 1 /\ unzipTree.root = tempLeaves[1]

\* C15: the loop is about to merge again in a working sequence of at least
\* three nodes, one of them the result of a merge.
C15_Witness ==
    /\ pc = "zip_merge"
    /\ Len(tempLeaves) >= 3
    /\ \E k \in 1..Len(tempLeaves) : ~isLeaf(tempLeaves[k])

\* The leaves below a node, from left to right.
RECURSIVE TreeLeaves(_)
TreeLeaves(node) ==
    IF node.kids = <<>> THEN <<node>>
    ELSE TreeLeaves(getLeftSubtree(node)) \o TreeLeaves(getRightSubtree(node))

\* Every internal node below (and including) node has exactly two children
\* and the sum of their frequencies; every leaf has none.
RECURSIVE TwoChildrenAndSum(_)
TwoChildrenAndSum(node) ==
    IF isLeaf(node) THEN node.kids = <<>>
    ELSE /\ Len(node.kids) = 2
         /\ getLeftSubtree(node) # NullPtr
         /\ getRightSubtree(node) # NullPtr
         /\ node.frequency =
              getLeftSubtree(node).frequency + getRightSubtree(node).frequency
         /\ TwoChildrenAndSum(getLeftSubtree(node))
         /\ TwoChildrenAndSum(getRightSubtree(node))

\* The two sequences hold the same elements, each as often.
SameElements(s, t) ==
    /\ Len(s) = Len(t)
    /\ \A k \in 1..Len(s) :
          Cardinality({j \in 1..Len(s) : s[j] = s[k]})
              = Cardinality({j \in 1..Len(t) : t[j] = s[k]})

\* C16: in every tree built from at least two leaves, every internal node
\* has exactly two children and the sum of their frequencies, and the leaves
\* of the tree are the leaves it was built from, each once; in the tree of
\* zip these are exactly the symbols of nonzero frequency, and the frequency
\* of the root is the length of the extension, plus one, plus the length of
\* the content.
C16_TreeStructure ==
    /\ (pc = "zip_header" /\ Len(zipTree.leaves) >= 2) =>
          LET freqArr == Histogram(Stream(srcExt, srcContent))
              lv      == TreeLeaves(zipTree.root)
          IN  /\ TwoChildrenAndSum(zipTree.root)
              /\ SameElements(lv, zipTree.leaves)
              /\ {lv[k].originalByte : k \in 1..Len(lv)}
                    = {b \in 0..(ALPHABET_SIZE - 1) : freqArr[b] > 0}
              /\ Len(lv) = Cardinality({b \in 0..(ALPHABET_SIZE - 1) : freqArr[b] > 0})
              /\ \A k \in 1..Len(lv) : lv[k].frequency = freqArr[lv[k].originalByte]
              /\ zipTree.root.frequency = Len(srcExt) + 1 + Len(srcContent)
    /\ (UnzipBuilt /\ pc # "unzip_ub" /\ Len(unzipTree.leaves) >= 2) =>
          /\ TwoChildrenAndSum(unzipTree.root)
          /\ SameElements(TreeLeaves(unzipTree.root), unzipTree.leaves)

\* C16: zip built a tree that has an internal node below its root.
C16_Witness ==
    /\ pc = "zip_header"
    /\ Len(zipTree.leaves) >= 3
    /\ \E k \in 1..2 : ~isLeaf(zipTree.root.kids[k])

\* The leaves below a node, each with the path that leads to it from path:
\* pairs <<originalByte, path>>, a 0 for a step to the left, a 1 to the right.
RECURSIVE PathsBelow(_, _)
PathsBelow(node, path) ==
    IF node.kids = <<>> THEN {<<node.originalByte, path>>}
    ELSE PathsBelow(getLeftSubtree(node), Append(path, 0))
           \cup PathsBelow(getRightSubtree(node), Append(path, 1))

\* The table of a tree has, for every leaf, the path to it as its codeword.
PathsAreCodewords(tree) ==
    \A p \in PathsBelow(tree.root, <<>>) :
        LET d == Len(p[2])
            e == DictAt(tree.encodingDict, p[1])
        IN  d \in 1..(ALPHABET_SIZE - 1) =>
              /\ e.numberOfBits = d
              /\ 8 * Len(e.codeword) >= d
              /\ \A j \in 0..(d - 1) : BitAt(e.codeword, j) = p[2][j + 1]
              /\ \A j \in d..(8 * Len(e.codeword) - 1) : BitAt(e.codeword, j) = 0

\* C17: for every leaf at depth d (1 to 255) of a tree that zip or unzip
\* built, its entry in the codeword table has numberOfBits = d, its bits from
\* the most significant bit of the first byte are the path from the root to
\* the leaf (0 for left, 1 for right), and every bit of the stored bytes past
\* numberOfBits is zero.
C17_CodewordIsPath ==
    /\ (pc = "zip_header" /\ Len(zipTree.leaves) >= 2) => PathsAreCodewords(zipTree)
    /\ (UnzipBuilt /\ pc # "unzip_ub" /\ Len(unzipTree.leaves) >= 2) =>
          PathsAreCodewords(unzipTree)

\* C17: a tree is built that has a leaf at a depth beyond 16, its codeword
\* in three bytes.
C17_Witness ==
    /\ UnzipBuilt
    /\ pc # "unzip_ub"
    /\ \E b \in DOMAIN unzipTree.encodingDict :
          /\ unzipTree.encodingDict[b].numberOfBits > 16
          /\ Len(unzipTree.encodingDict[b].codeword) = 3

\* The symbols of the stream that zip has encoded.
Encoded == Len(srcExt) + 1 + srcPos - Len(srcBuffer) + i

\* The iteration of the encoding loop writes the accumulator to the file.
FlushStep == ZipEncodeByte /\ Len(flushes') = Len(flushes) + 1

\* After the step, the body written so far is the start of the packed
\* codewords of the symbols encoded, the bits that follow it are at the start
\* of the accumulator, and the rest of the accumulator is zero.  (The
\* quantifiers over one-element sets have each value computed once.)
SplitIsExact ==
    \A bits \in {StreamBits(Stream(srcExt, srcContent), zipTree.encodingDict, 1, Encoded')} :
    \A packed \in {PackBits(bits)} :
        LET kept == Len(packed) - Len(Body')
        IN  /\ Body' = SubSeq(packed, 1, Len(Body'))
            /\ Len(bits) = 8 * Len(Body') + (destBufferNumBits - destBufferFreeBits')
            /\ \A k \in 1..kept : DestAt(destBuffer', k - 1) = packed[Len(Body') + k]
            /\ \A k \in 1..Len(destBuffer') : k > kept => destBuffer'[k] = 0

\* C18: when a codeword does not fit in the free bits of the accumulator,
\* the accumulator is filled with its high-order bits, all BUFFER_SIZE bytes
\* of it are written, it is reset to zero and the low-order bits are packed
\* at its start: every write in the encoding loop is of BUFFER_SIZE bytes.
C18_FullFlush ==
    [][FlushStep => /\ flushes'[Len(flushes')] = BUFFER_SIZE
                    /\ SplitIsExact]_vars

\* C18, amended: a codeword that does not fit in the free bits, or that
\* takes all of them, makes the encoding loop write the accumulator up to and
\* with the byte the codeword starts in, its first byte merged in: at most
\* BUFFER_SIZE bytes, fewer when the codeword starts in an earlier byte than
\* the last.  The bytes written are final, the accumulator is reset to zero
\* and the bits of the codeword that follow are packed at its start.
C18_FlushToStartByte ==
    [][ZipEncodeByte =>
         LET numberOfBits    == DictAt(zipTree.encodingDict, srcBuffer[i + 1]).numberOfBits
             destBufferIndex == (destBufferNumBits - destBufferFreeBits) \div 8
         IN  /\ (numberOfBits >= destBufferFreeBits) <=> FlushStep
             /\ FlushStep =>
                   /\ flushes'[Len(flushes')] = destBufferIndex + 1
                   /\ destBufferIndex + 1 <= BUFFER_SIZE
                   /\ Len(hzFile') = Len(hzFile) + destBufferIndex + 1
                   /\ SubSeq(hzFile', 1, Len(hzFile)) = hzFile
                   /\ SplitIsExact]_vars

\* C18: the encoding loop wrote fewer than BUFFER_SIZE bytes, and bits of
\* the codeword that did not fit are in the accumulator.
C18_Witness ==
    /\ pc = "zip_encode"
    /\ Len(flushes) = 1
    /\ flushes[1] < BUFFER_SIZE
    /\ Len(Body) = flushes[1]
    /\ destBufferFreeBits < destBufferNumBits
    /\ destBuffer # <<>>

\* C19: unzip splits the symbols it decodes at the first separator: those
\* before it are appended, in order, to the extension of the output path;
\* all those after it, later separators too, are written in order to the
\* output file; the separator itself is written to neither.  (Checked where
\* the symbols decoded are known: unzip has the leaves of zip and has not
\* read beyond the end of the file, so that it decodes the stream of zip.)
C19_SplitAtFirstSeparator ==
    (Decoding /\ overrun = 0) =>
        LET stream == Stream(srcExt, srcContent)
        IN  /\ Emitted <= Len(stream)
            /\ decoder.destExt
                  \o (IF decoder.outOpen THEN <<separator>> ELSE <<>>)
                  \o decoder.outFile
                = SubSeq(stream, 1, Emitted)
            /\ \A k \in 1..Len(decoder.destExt) : decoder.destExt[k] # separator
            /\ ~decoder.outOpen => decoder.outFile = <<>>

\* C19: unzip ended with an extension restored and with a separator among
\* the content it wrote.
C19_Witness ==
    /\ pc = "unzip_ok"
    /\ decoder.destExt # <<>>
    /\ \E k \in 1..Len(decoder.outFile) : decoder.outFile[k] = separator
    /\ \E k \in 1..Len(decoder.outFile) : decoder.outFile[k] # separator

\* C20: unzip reports success only when bytesToDecode is zero and every
\* symbol it decoded is written; every other outcome of unzip is an error
\* raised to main, which returns 2; and main returns 0 only when zip or unzip
\* returned without an exception.
C20_NoPartialSuccess ==
    /\ pc = "unzip_ok" =>
          /\ decoder.bytesToDecode = 0
          /\ decoder.outOpen
          /\ Emitted = unzipTree.root.frequency
    /\ pc # "unzip_ub"
    /\ pc = "unzip_error" => exitStatus = 2
    /\ exitStatus = 0 => pc \in {"zipped", "unzip_ok"}

\* C21: on every input file, whole or cut anywhere in its body, the decoding
\* loops of unzip go on only while a byte that was read is left: unzip is
\* never at the head of its loop with currentByte at bytesRead, and it never
\* takes a source byte from beyond the bytes read, so that it ends, with
\* success or with an error, when the bytes read are consumed.
C21_StopsWhenBytesConsumed ==
    /\ pc = "unzip_decode" => currentByte < Len(inBuffer)
    /\ overrun = 0

\* C22: during zip every store into destBuffer is at an index from 0 to
\* BUFFER_SIZE - 1, the zero byte that shiftRight appends included, and every
\* write of the accumulator to the file is of at most BUFFER_SIZE bytes.
C22_AccumulatorBounds ==
    /\ \A store \in destOOB : store[1] \in 0..(BUFFER_SIZE - 1)
    /\ \A k \in 1..Len(flushes) : flushes[k] \in 1..BUFFER_SIZE

====
